---- MODULE Spec2Model ----
(***************************************************************************)
(* The freebayes site driver (src/src/freebayes.cpp, main): the per-site   *)
(* gates, the combination search's result list (sort, unique), the site    *)
(* decision (pVar, pHom, bestCombo), the marginal convergence loop and the *)
(* emission of variant records.                                            *)
(*                                                                         *)
(* Numbers.  Log probabilities are integers to base 2: posteriorProb = k   *)
(* stands for the probability weight 2^k.  A probability in linear space   *)
(* is a rational whose denominator is the posterior normalizer Z (the      *)
(* exponential of logsumexp over the list), so pHom and pVar are kept as   *)
(* numerators over Z.  PVL is a numerator over PVLDen.  Rounding of the    *)
(* long double arithmetic is not modelled.                                 *)
(***************************************************************************)
EXTENDS Integers, Sequences, FiniteSets, TLC

\* ---------------------------------------------------------------- bounds
\* the run of the driver over several sites (Spec)
MaxSites == 2        \* sites the producer yields in one run
MaxCoverage == 2     \* observations at a site
MaxAlternates == 2   \* genotype alleles besides the reference at a site
MaxFound == 1        \* combos the search accepts besides the injected homozygous ones
MaxLogPost == 0      \* posteriorProb ranges over 0..MaxLogPost
PVLDen == 3          \* PVL ranges over 0/PVLDen .. PVLDen/PVLDen
\* one site from the combo list to its records (SpecSite)
SiteMaxFound == 2
SiteMaxLogPost == 1
\* one site's marginal convergence loop (SpecMarginals)
MaxIterations == 2   \* genotypingMaxIterations ranges over 0..MaxIterations
MaxLocalLogPost == 3 \* second-pass posteriorProb ranges over 0..MaxLocalLogPost
\* one site's likelihood phase (SpecLikelihoods)
MaxThreshold == 2    \* genotypeVariantThreshold ranges over 0..MaxThreshold, in units of 10*log10(2)

\* ------------------------------------------------------------- universe
\* the four genotype alleles of main, in the order they are pushed
allGenotypeAlleles == <<"A", "T", "G", "C">>

RefBases == {"A", "T", "G", "C", "N"}

Range(s) == {s[i] : i \in DOMAIN s}

\* canonical order on base strings (std::string operator<)
BaseOrd(b) == CASE b = "A" -> 1 [] b = "C" -> 2 [] b = "G" -> 3 [] b = "T" -> 4 [] OTHER -> 5

RECURSIVE Pow2(_)
Pow2(n) == IF n <= 0 THEN 1 ELSE 2 * Pow2(n - 1)

RECURSIVE SumSeq(_)
SumSeq(s) == IF s = <<>> THEN 0 ELSE Head(s) + SumSeq(Tail(s))

RECURSIVE Flatten(_)
Flatten(ss) == IF ss = <<>> THEN <<>> ELSE Head(ss) \o Flatten(Tail(ss))

\* ------------------------------------------------------------ genotypes
\* every multiset of `ploidy` indices in lo..n, as non-decreasing tuples, in
\* lexicographic order
RECURSIVE multichoose(_, _, _)
multichoose(ploidy, lo, n) ==
    IF ploidy = 0 THEN << <<>> >>
    ELSE Flatten([i \in 1..(n - lo + 1) |->
            LET rest == multichoose(ploidy - 1, lo + i - 1, n)
            IN  [j \in 1..Len(rest) |-> <<lo + i - 1>> \o rest[j]]])

\* a genotype is the tuple of its alleles (with multiplicity), in canonical order
allPossibleGenotypes(ploidy, alleles) ==
    LET idx == multichoose(ploidy, 1, Len(alleles))
    IN  [k \in 1..Len(idx) |-> [p \in 1..ploidy |-> alleles[idx[k][p]]]]

\* Genotype::homozygous: a single distinct allele
GenotypeHomozygous(g) == Cardinality(Range(g)) = 1

\* ---------------------------------------------------------------- combos
\* A GenotypeCombo: one genotype per sample with data (genotypes[s]) and its
\* joint log score.
GenotypeCombo(gs, p) == [genotypes |-> gs, posteriorProb |-> p]

ComboAlleles(gs) == UNION {Range(gs[s]) : s \in DOMAIN gs}

\* GenotypeCombo::isHomozygous: the site is monomorphic, p(AA|d), p(TT|d), ...
isHomozygous(gc) == Cardinality(ComboAlleles(gc.genotypes)) = 1

\* all assignments of one genotype of its ploidy to every sample
AllAssignments(ploidies, alleles) ==
    {gs \in [1..Len(ploidies) -> UNION {Range(allPossibleGenotypes(ploidies[s], alleles)) : s \in 1..Len(ploidies)}] :
        \A s \in 1..Len(ploidies) : Len(gs[s]) = ploidies[s]}

\* the all-homozygous assignments over the allele set, in allele order
AllHomozygousAssignments(ploidies, alleles) ==
    [a \in 1..Len(alleles) |-> [s \in 1..Len(ploidies) |-> [p \in 1..ploidies[s] |-> alleles[a]]]]

\* GenotypeCombo operator==: the same genotype for every sample
ComboEqual(a, b) == a.genotypes = b.genotypes

\* GenotypeComboResultSorter: a before b when its posteriorProb is greater
gcrSorter(a, b) == a.posteriorProb > b.posteriorProb

\* std::list::sort(comp): a stable sort (insertion of each element after the
\* last element that is not ordered after it)
RECURSIVE InsertSorted(_, _)
InsertSorted(sorted, x) ==
    IF sorted = <<>> THEN <<x>>
    ELSE IF gcrSorter(x, Head(sorted)) THEN <<x>> \o sorted
    ELSE <<Head(sorted)>> \o InsertSorted(Tail(sorted), x)

RECURSIVE ListSortFrom(_, _)
ListSortFrom(sorted, rest) ==
    IF rest = <<>> THEN sorted ELSE ListSortFrom(InsertSorted(sorted, Head(rest)), Tail(rest))

ListSort(combos) == ListSortFrom(<<>>, combos)

\* std::list::unique(): removes every element equal to the element before it
RECURSIVE ListUnique(_)
ListUnique(combos) ==
    IF Len(combos) <= 1 THEN combos
    ELSE LET rest == ListUnique(Tail(combos))
         IN  IF ComboEqual(Head(combos), Head(Tail(combos))) THEN rest
             ELSE <<Head(combos)>> \o rest

\* sort by the normalized datalikelihood + prior, then unique
SortAndUnique(combos) == ListUnique(ListSort(combos))

\* exp(logsumexp_probs(comboProbs)): the normalizer in linear space
posteriorNormalizerOf(combos) == SumSeq([k \in 1..Len(combos) |-> Pow2(combos[k].posteriorProb)])

\* the numerator over Z of safe_exp(posteriorProb - posteriorNormalizer)
safe_exp(posteriorProb) == Pow2(posteriorProb)

\* ------------------------------------------------------------ site decision
\* state of the loop that calculates pVar and gets the best het combo
DecisionInit(Z) ==
    [pVar |-> Z, pHom |-> 0, hasHetCombo |-> FALSE, bestOverallComboIsHet |-> FALSE, bestCombo |-> 0]

\* DecisionBody with pVar reduced by every combo, homozygous or not
DecisionBody_pVarEveryCombo(combos, k, st) ==
    LET less == [st EXCEPT !.pVar = @ - safe_exp(combos[k].posteriorProb)]
    IN  IF isHomozygous(combos[k])
        THEN [less EXCEPT !.pHom = @ + safe_exp(combos[k].posteriorProb)]
        ELSE IF ~st.hasHetCombo
        THEN [less EXCEPT !.bestCombo = k, !.hasHetCombo = TRUE,
                          !.bestOverallComboIsHet = IF k = 1 THEN TRUE ELSE @]
        ELSE less

\* DecisionBody without the !hasHetCombo test: every het combo replaces bestCombo
DecisionBody_EveryHet(combos, k, st) ==
    IF isHomozygous(combos[k])
    THEN [st EXCEPT !.pVar = @ - safe_exp(combos[k].posteriorProb),
                    !.pHom = @ + safe_exp(combos[k].posteriorProb)]
    ELSE [st EXCEPT !.bestCombo = k, !.hasHetCombo = TRUE,
                    !.bestOverallComboIsHet = IF k = 1 THEN TRUE ELSE @]

\* DecisionBody without the gc == genotypeCombos.begin() test
DecisionBody_NoBeginTest(combos, k, st) ==
    IF isHomozygous(combos[k])
    THEN [st EXCEPT !.pVar = @ - safe_exp(combos[k].posteriorProb),
                    !.pHom = @ + safe_exp(combos[k].posteriorProb)]
    ELSE IF ~st.hasHetCombo
    THEN [st EXCEPT !.bestCombo = k, !.hasHetCombo = TRUE, !.bestOverallComboIsHet = TRUE]
    ELSE st

\* one pass of the loop body for the k-th combo of the list (gc == begin() is k = 1)
DecisionBody(combos, k, st) ==
    IF isHomozygous(combos[k])
    THEN [st EXCEPT !.pVar = @ - safe_exp(combos[k].posteriorProb),
                    !.pHom = @ + safe_exp(combos[k].posteriorProb)]
    ELSE IF ~st.hasHetCombo
    THEN [st EXCEPT !.bestCombo = k, !.hasHetCombo = TRUE,
                    !.bestOverallComboIsHet = IF k = 1 THEN TRUE ELSE @]
    ELSE st

RECURSIVE DecisionLoop(_, _, _)
DecisionLoop(combos, k, st) ==
    IF k > Len(combos) THEN st ELSE DecisionLoop(combos, k + 1, DecisionBody(combos, k, st))

\* if for some reason there are no het combos, use the first combo
UseFirstIfNoHet(st) ==
    IF ~st.hasHetCombo THEN [st EXCEPT !.bestCombo = 1] ELSE st

SiteDecisionOf(combos) ==
    UseFirstIfNoHet(DecisionLoop(combos, 1, DecisionInit(posteriorNormalizerOf(combos))))

\* IsVariantCall with > for >=
IsVariantCall_Strict(h, Z, pvl) == (Z - h) * PVLDen > pvl * Z

\* (1 - pHom) >= parameters.PVL, with pHom = h/Z and PVL = pvl/PVLDen
IsVariantCall(h, Z, pvl) == (Z - h) * PVLDen >= pvl * Z

\* ------------------------------------------------------------ alternates
\* copies of allele a in the combo
AlleleCount(gs, a) ==
    SumSeq([s \in 1..Len(gs) |-> Cardinality({p \in DOMAIN gs[s] : gs[s][p] = a})])

\* a ranks before b: more copies; on a tie the shorter allele, then the base string
AltBefore(gs, a, b) ==
    \/ AlleleCount(gs, a) > AlleleCount(gs, b)
    \/ AlleleCount(gs, a) = AlleleCount(gs, b) /\ BaseOrd(a) < BaseOrd(b)

RECURSIVE RankAlleles(_, _)
RankAlleles(gs, S) ==
    IF S = {} THEN <<>>
    ELSE LET top == CHOOSE a \in S : \A b \in S \ {a} : AltBefore(gs, a, b)
         IN  <<top>> \o RankAlleles(gs, S \ {top})

\* the unique alternate alleles in this combo, sorted by frequency in the combo
alternateAlleles(gs, referenceBase) == RankAlleles(gs, ComboAlleles(gs) \ {referenceBase})

\* ------------------------------------------------------------ marginals
\* A SampleDataLikelihood: (genotype, log p(obs|genotype), marginal); the
\* marginal is kept as its numerator over the pass's normalizer.
SampleDataLikelihood(name, g, p, m) == [name |-> name, genotype |-> g, prob |-> p, marginal |-> m]

\* sortSampleDataLikelihoods: descending by prob, stable
RECURSIVE InsertByProb(_, _)
InsertByProb(sorted, x) ==
    IF sorted = <<>> THEN <<x>>
    ELSE IF x.prob > Head(sorted).prob THEN <<x>> \o sorted
    ELSE <<Head(sorted)>> \o InsertByProb(Tail(sorted), x)

RECURSIVE SortByProbFrom(_, _)
SortByProbFrom(sorted, rest) ==
    IF rest = <<>> THEN sorted ELSE SortByProbFrom(InsertByProb(sorted, Head(rest)), Tail(rest))

sortSampleDataLikelihoods(sampleData) == SortByProbFrom(<<>>, sampleData)

\* the combo of every sample's first (best) genotype
dataLikelihoodMaxGenotypeCombo(likelihoods) ==
    [s \in 1..Len(likelihoods) |-> likelihoods[s][1].genotype]

\* orderedGenotypeCombo: the combo's genotypes in the order of the samples in
\* sampleDataLikelihoods (combos are indexed by sample already)
orderedGenotypeCombo(gc) == gc.genotypes

\* the single-sample substitutions of the seed, sample by sample, each sample's
\* genotypes in the order of its likelihood list
LocalSubstitutions(seed, likelihoods) ==
    Flatten([s \in 1..Len(likelihoods) |->
        LET others == SelectSeq(likelihoods[s], LAMBDA e : e.genotype # seed[s])
        IN  [k \in 1..Len(others) |-> [seed EXCEPT ![s] = others[k].genotype]]])

\* allLocalGenotypeCombinations: an empty seed (nullCombo) is filled with the
\* current best genotype of every sample; the result is the seed and its
\* single-sample substitutions, scored under the second-pass priors
allLocalGenotypeCombinations(comboKing, likelihoods, score) ==
    LET seed == IF comboKing = <<>> THEN dataLikelihoodMaxGenotypeCombo(likelihoods) ELSE comboKing
        all == <<seed>> \o LocalSubstitutions(seed, likelihoods)
    IN  [k \in 1..Len(all) |-> GenotypeCombo(all[k], score[all[k]])]

\* marginalGenotypeLikelihoods: marginal(s, g) = sum of exp(posteriorProb) over
\* the combos with combo[s] = g (over the normalizer of the list)
MarginalOf(combos, s, g) ==
    SumSeq([k \in 1..Len(combos) |->
        IF combos[k].genotypes[s] = g THEN Pow2(combos[k].posteriorProb) ELSE 0])

marginalGenotypeLikelihoods(combos, likelihoods) ==
    [s \in 1..Len(likelihoods) |->
        [k \in 1..Len(likelihoods[s]) |->
            [likelihoods[s][k] EXCEPT !.marginal = MarginalOf(combos, s, likelihoods[s][k].genotype)]]]

\* sortSampleDataLikelihoodsByMarginals: every sample's list descending by
\* marginal, stable; reports whether any list changed its order
RECURSIVE InsertByMarginal(_, _)
InsertByMarginal(sorted, x) ==
    IF sorted = <<>> THEN <<x>>
    ELSE IF x.marginal > Head(sorted).marginal THEN <<x>> \o sorted
    ELSE <<Head(sorted)>> \o InsertByMarginal(Tail(sorted), x)

RECURSIVE SortByMarginalFrom(_, _)
SortByMarginalFrom(sorted, rest) ==
    IF rest = <<>> THEN sorted ELSE SortByMarginalFrom(InsertByMarginal(sorted, Head(rest)), Tail(rest))

sortSampleDataLikelihoodsByMarginals(likelihoods) ==
    [s \in 1..Len(likelihoods) |-> SortByMarginalFrom(<<>>, likelihoods[s])]

GenotypeOrder(likelihoods) ==
    [s \in 1..Len(likelihoods) |-> [k \in 1..Len(likelihoods[s]) |-> likelihoods[s][k].genotype]]

\* the value sortSampleDataLikelihoodsByMarginals returns
SortSwapped(before, after) == GenotypeOrder(before) # GenotypeOrder(after)

\* one pass of the convergence loop's body on the sample likelihoods: expand,
\* sort and unique, recompute the marginals, re-sort by marginal
MarginalPass(comboKing, likelihoods, score) ==
    LET localGenotypeCombos == SortAndUnique(allLocalGenotypeCombinations(comboKing, likelihoods, score))
    IN  sortSampleDataLikelihoodsByMarginals(marginalGenotypeLikelihoods(localGenotypeCombos, likelihoods))

\* the marginals a pass computes, before the re-sort
MarginalPassUnsorted(comboKing, likelihoods, score) ==
    marginalGenotypeLikelihoods(
        SortAndUnique(allLocalGenotypeCombinations(comboKing, likelihoods, score)), likelihoods)

\* LoopGuard with <= for <
LoopGuard_Inclusive(iter, genotypingMaxIterations) == iter <= genotypingMaxIterations

\* the loop's guard, i < parameters.genotypingMaxIterations
LoopGuard(iter, genotypingMaxIterations) == iter < genotypingMaxIterations

\* ------------------------------------------------------------------ state
VARIABLES
    parameters,             \* the configuration, fixed after startup
    pc,                     \* position of main in the site loop
    site,                   \* what the parser holds after getNextAlleles
    total_sites,
    processed_sites,
    skipped,                \* the gate that skipped the current site ("" when none)
    results,                \* the result entry of every sample that has one
    sampleDataLikelihoods,  \* per sample with data, its genotypes with likelihood and marginal
    variantSampleDataLikelihoods,
    invariantSampleDataLikelihoods,
    genotypeCombos,         \* the combo list of the site
    posteriorNormalizer,    \* exp of the logsumexp over the list
    pVar, pHom,             \* numerators over posteriorNormalizer
    hasHetCombo,
    bestOverallComboIsHet,
    bestCombo,              \* index into genotypeCombos (0: NULL)
    localPosterior,         \* the second-pass score of every assignment of the site
    bestComboOrdered,       \* seed of the first marginal pass
    iteration,              \* i of the convergence loop
    lastSwapped,            \* what the last re-sort by marginals returned
    bestGenotypeComboByMarginals,
    localExpansion,         \* the last call of allLocalGenotypeCombinations: pass, seed, samples, list
    out,                    \* the variant records written, in order
    failedFile,             \* the failed-site lines written, in order
    twin                    \* a second run of main on the same input under another PVL

vars == <<parameters, pc, site, total_sites, processed_sites, skipped, results, sampleDataLikelihoods,
          variantSampleDataLikelihoods, invariantSampleDataLikelihoods,
          genotypeCombos, posteriorNormalizer, pVar, pHom, hasHetCombo, bestOverallComboIsHet,
          bestCombo, localPosterior, bestComboOrdered, iteration, lastSwapped,
          bestGenotypeComboByMarginals, localExpansion, out, failedFile, twin>>

likelihoodVars == <<results, variantSampleDataLikelihoods, invariantSampleDataLikelihoods>>

siteVars == <<likelihoodVars, sampleDataLikelihoods, genotypeCombos, posteriorNormalizer, pVar, pHom, hasHetCombo,
              bestOverallComboIsHet, bestCombo>>
marginalVars == <<localPosterior, bestComboOrdered, iteration, lastSwapped, bestGenotypeComboByMarginals,
                  localExpansion>>
counters == <<total_sites, processed_sites>>
outputs == <<out, failedFile>>

BoundedSeq(S, n) == UNION {[1..k -> S] : k \in 0..n}

\* ------------------------------------------------------------ inputs
Configurations ==
    [PVL : 0..PVLDen, reportAllAlternates : BOOLEAN, calculateMarginals : BOOLEAN,
     failedFile : BOOLEAN, minCoverage : {0, MaxCoverage},
     genotypingMaxIterations : 0..MaxIterations,
     excludePartiallyObservedGenotypes : BOOLEAN, excludeUnobservedGenotypes : BOOLEAN,
     genotypeVariantThreshold : 0..MaxThreshold]

\* every genotype is evaluated and every sample is a variant candidate
DefaultPolicies(c) ==
    /\ ~c.excludePartiallyObservedGenotypes
    /\ ~c.excludeUnobservedGenotypes
    /\ c.genotypeVariantThreshold = 0

\* the genotype alleles the parser can return at a site: the reference and up
\* to MaxAlternates others, in the order of allGenotypeAlleles
GenotypeAlleleChoices(refBase) ==
    LET alts == SelectSeq(allGenotypeAlleles, LAMBDA a : a # refBase)
    IN  {SelectSeq(allGenotypeAlleles, LAMBDA a : a = refBase \/ \E j \in 1..k : alts[j] = a) :
            k \in 0..MaxAlternates}

\* the site after the current one: the next position, or the next sequence
NextPositions(cur) ==
    {[currentSequenceName |-> cur.currentSequenceName, currentPosition |-> cur.currentPosition + 1]}
    \cup (IF cur.currentSequenceName = "chr1"
          THEN {[currentSequenceName |-> "chr2", currentPosition |-> 1]} ELSE {})

SitesAt(p, cb, ploidyChoices) ==
    {[currentSequenceName |-> p.currentSequenceName, currentPosition |-> p.currentPosition,
      currentReferenceBase |-> cb, inTarget |-> t, coverage |-> c, sufficientAlternateObservations |-> a,
      genotypeAlleles |-> ga, ploidies |-> pl, observed |-> [s \in 1..Len(pl) |-> Range(ga)]] :
        t \in BOOLEAN, c \in 0..MaxCoverage, a \in BOOLEAN, ga \in GenotypeAlleleChoices(cb),
        pl \in ploidyChoices}

\* the sites of the driver's run: one diploid sample
Sites(cur) == UNION {SitesAt(p, cb, {<<2>>}) : p \in NextPositions(cur), cb \in RefBases}

NoSite ==
    [currentSequenceName |-> "chr1", currentPosition |-> 0, currentReferenceBase |-> "N",
     inTarget |-> FALSE, coverage |-> 0, sufficientAlternateObservations |-> FALSE,
     genotypeAlleles |-> <<>>, ploidies |-> <<>>, observed |-> <<>>]

\* ------------------------------------------------------------ the gates
ReferenceBaseIsACGT(cb) == ~(cb # "A" /\ cb # "T" /\ cb # "C" /\ cb # "G")

\* CoverageSkips without the --min-coverage test
CoverageSkips_ZeroOnly(coverage, minCoverage) == coverage = 0

CoverageSkips(coverage, minCoverage) == coverage = 0 \/ coverage < minCoverage

TooFewGenotypeAlleles(genotypeAlleles) == Len(genotypeAlleles) <= 1

\* no pass of the convergence loop has run at the site
NoExpansion == [i |-> 0 - 1, comboKing |-> <<>>, samples |-> <<>>, localGenotypeCombos |-> <<>>]

\* no second run
NoTwin == [PVL |-> 0, sites |-> 0, crashed |-> FALSE, out |-> <<>>]

StartState ==
    /\ site = NoSite
    /\ total_sites = 0
    /\ processed_sites = 0
    /\ skipped = ""
    /\ results = <<>>
    /\ sampleDataLikelihoods = <<>>
    /\ variantSampleDataLikelihoods = <<>>
    /\ invariantSampleDataLikelihoods = <<>>
    /\ genotypeCombos = <<>>
    /\ posteriorNormalizer = 0
    /\ pVar = 0
    /\ pHom = 0
    /\ hasHetCombo = FALSE
    /\ bestOverallComboIsHet = FALSE
    /\ bestCombo = 0
    /\ localPosterior = <<>>
    /\ bestComboOrdered = <<>>
    /\ iteration = 0
    /\ lastSwapped = FALSE
    /\ bestGenotypeComboByMarginals = <<>>
    /\ localExpansion = NoExpansion
    /\ out = <<>>
    /\ failedFile = <<>>

\* the driver from startup, marginals not calculated
Init ==
    /\ parameters \in {c \in Configurations :
            ~c.calculateMarginals /\ c.genotypingMaxIterations = 0 /\ DefaultPolicies(c)}
    /\ pc = "loop"
    /\ StartState
    /\ twin = NoTwin

\* the locals of the loop body, as constructed at the top of each pass
FreshLocals ==
    /\ results' = <<>>
    /\ sampleDataLikelihoods' = <<>>
    /\ variantSampleDataLikelihoods' = <<>>
    /\ invariantSampleDataLikelihoods' = <<>>
    /\ genotypeCombos' = <<>>
    /\ posteriorNormalizer' = 0
    /\ pVar' = 0
    /\ pHom' = 0
    /\ hasHetCombo' = FALSE
    /\ bestOverallComboIsHet' = FALSE
    /\ bestCombo' = 0
    /\ localPosterior' = <<>>
    /\ bestComboOrdered' = <<>>
    /\ iteration' = 0
    /\ lastSwapped' = FALSE
    /\ bestGenotypeComboByMarginals' = <<>>
    /\ localExpansion' = NoExpansion

\* while (parser->getNextAlleles(samples, allowedAlleleTypes)) { ++total_sites;
GetNextAlleles ==
    /\ pc = "loop"
    /\ total_sites < MaxSites
    /\ \E next \in Sites(site) : site' = next
    /\ total_sites' = total_sites + 1
    /\ skipped' = ""
    /\ pc' = "referenceBase"
    /\ UNCHANGED <<parameters, twin, processed_sites, siteVars, marginalVars, outputs>>

\* getNextAlleles returns false: the loop ends
EndOfInput ==
    /\ pc = "loop"
    /\ pc' = "done"
    /\ UNCHANGED <<parameters, twin, site, counters, skipped, siteVars, marginalVars, outputs>>

Gate(at, skips, reason, next) ==
    /\ pc = at
    /\ IF skips THEN pc' = "loop" /\ skipped' = reason
                ELSE pc' = next /\ skipped' = skipped
    /\ UNCHANGED <<parameters, twin, site, counters, siteVars, marginalVars, outputs>>

\* don't process non-ATGC's in the reference
CheckReferenceBase ==
    Gate("referenceBase", ~ReferenceBaseIsACGT(site.currentReferenceBase), "referenceBase", "inTarget")

CheckInTarget == Gate("inTarget", ~site.inTarget, "inTarget", "coverage")

CheckCoverage ==
    Gate("coverage", CoverageSkips(site.coverage, parameters.minCoverage), "coverage", "alternateObservations")

CheckAlternateObservations ==
    Gate("alternateObservations", ~site.sufficientAlternateObservations, "alternateObservations",
         "genotypeAlleles")

\* if (genotypeAlleles.size() <= 1) continue; ++processed_sites;
CheckGenotypeAlleles ==
    /\ pc = "genotypeAlleles"
    /\ IF TooFewGenotypeAlleles(site.genotypeAlleles)
       THEN pc' = "loop" /\ skipped' = "genotypeAlleles" /\ processed_sites' = processed_sites
       ELSE pc' = "likelihoods" /\ skipped' = skipped /\ processed_sites' = processed_sites + 1
    /\ UNCHANGED <<parameters, twin, site, total_sites, siteVars, marginalVars, outputs>>

\* Genotype::sampleHasSupportingObservationsForAllAlleles: every allele of the
\* genotype is among the alleles the sample's observations support
sampleHasSupportingObservationsForAllAlleles(g, observed) == \A k \in 1..Len(g) : g[k] \in observed

\* Genotype::sampleHasSupportingObservations: some allele of the genotype is
sampleHasSupportingObservations(g, observed) == \E k \in 1..Len(g) : g[k] \in observed

\* genotypesWithObs with the two flags tested in the other order
genotypesWithObs_UnobservedFirst(genotypes, observed, config) ==
    SelectSeq(genotypes, LAMBDA g :
        IF config.excludeUnobservedGenotypes
        THEN sampleHasSupportingObservations(g, observed)
        ELSE IF config.excludePartiallyObservedGenotypes
        THEN sampleHasSupportingObservationsForAllAlleles(g, observed)
        ELSE TRUE)

\* the genotypes of the sample's ploidy that are evaluated
genotypesWithObs(genotypes, observed, config) ==
    SelectSeq(genotypes, LAMBDA g :
        IF config.excludePartiallyObservedGenotypes
        THEN sampleHasSupportingObservationsForAllAlleles(g, observed)
        ELSE IF config.excludeUnobservedGenotypes
        THEN sampleHasSupportingObservations(g, observed)
        ELSE TRUE)

\* the genotypes evaluated for sample s of the site
SampleGenotypes(st, config, s) ==
    genotypesWithObs(allPossibleGenotypes(st.ploidies[s], st.genotypeAlleles), st.observed[s], config)

\* what probObservedAllelesGivenGenotypes can return: a log likelihood for every
\* genotype handed to it, one genotype the best
KernelResults(genotypes) ==
    {[k \in 1..Len(genotypes) |-> <<genotypes[k], IF k = b THEN 0 ELSE 0 - 1>>] : b \in 1..Len(genotypes)}

\* the kernel's results for every sample of the site (none for a sample that is skipped)
SiteKernelResults(st, config) ==
    {probs \in [1..Len(st.ploidies) ->
                   {<<>>} \cup UNION {KernelResults(SampleGenotypes(st, config, s)) : s \in 1..Len(st.ploidies)}] :
        \A s \in 1..Len(st.ploidies) :
            IF SampleGenotypes(st, config, s) = <<>> THEN probs[s] = <<>>
            ELSE probs[s] \in KernelResults(SampleGenotypes(st, config, s))}

\* float2phred(1 - (exp(front.prob) - exp(second.prob))) < threshold, the
\* threshold in units of 10*log10(2): 1 - (2^p1 - 2^p2) > 2^(-threshold)
PhredOfGapBelow(front, second, threshold) ==
    LET K == 0 - second.prob
    IN  (Pow2(K) - Pow2(K + front.prob) + Pow2(K + second.prob)) * Pow2(threshold) > Pow2(K)

\* IsVariantSample without the sampleData.size() > 1 test
IsVariantSample_AnySize(sampleData, genotypeVariantThreshold) ==
    IF genotypeVariantThreshold # 0
    THEN Len(sampleData) <= 1
         \/ PhredOfGapBelow(sampleData[1], sampleData[2], genotypeVariantThreshold)
    ELSE TRUE

\* the sample goes to variantSampleDataLikelihoods
IsVariantSample(sampleData, genotypeVariantThreshold) ==
    IF genotypeVariantThreshold # 0
    THEN Len(sampleData) > 1 /\ PhredOfGapBelow(sampleData[1], sampleData[2], genotypeVariantThreshold)
    ELSE TRUE

LikelihoodsInit ==
    [results |-> <<>>, sampleDataLikelihoods |-> <<>>, variantSampleDataLikelihoods |-> <<>>,
     invariantSampleDataLikelihoods |-> <<>>]

\* the body of for (Samples::iterator s = samples.begin(); ...) for sample `name`
LikelihoodsBody(acc, name, genotypes, probs, config) ==
    IF genotypes = <<>> THEN acc
    ELSE LET sampleData == sortSampleDataLikelihoods(
                 [k \in 1..Len(probs) |-> SampleDataLikelihood(name, probs[k][1], probs[k][2], 0)])
             variant == IsVariantSample(sampleData, config.genotypeVariantThreshold)
         IN  [results |-> acc.results @@ (name :> sampleData),
              sampleDataLikelihoods |-> Append(acc.sampleDataLikelihoods, sampleData),
              variantSampleDataLikelihoods |->
                  IF variant THEN Append(acc.variantSampleDataLikelihoods, sampleData)
                  ELSE acc.variantSampleDataLikelihoods,
              invariantSampleDataLikelihoods |->
                  IF variant THEN acc.invariantSampleDataLikelihoods
                  ELSE Append(acc.invariantSampleDataLikelihoods, sampleData)]

RECURSIVE LikelihoodsLoop(_, _, _, _, _)
LikelihoodsLoop(acc, s, st, config, probs) ==
    IF s > Len(st.ploidies) THEN acc
    ELSE LikelihoodsLoop(LikelihoodsBody(acc, s, SampleGenotypes(st, config, s), probs[s], config),
                         s + 1, st, config, probs)

\* the likelihood phase of a site, given what the kernel returns
LikelihoodPhase(st, config, probs) == LikelihoodsLoop(LikelihoodsInit, 1, st, config, probs)

\* calculate data likelihoods: per sample, the evaluated genotypes scored by the
\* kernel and sorted by likelihood, the sample filed as variant or invariant
DataLikelihoods ==
    /\ pc = "likelihoods"
    /\ \E probs \in SiteKernelResults(site, parameters) :
          LET phase == LikelihoodPhase(site, parameters, probs)
          IN  /\ results' = phase.results
              /\ sampleDataLikelihoods' = phase.sampleDataLikelihoods
              /\ variantSampleDataLikelihoods' = phase.variantSampleDataLikelihoods
              /\ invariantSampleDataLikelihoods' = phase.invariantSampleDataLikelihoods
    /\ pc' = "search"
    /\ UNCHANGED <<parameters, twin, site, counters, skipped, genotypeCombos, posteriorNormalizer, pVar, pHom,
                   hasHetCombo, bestOverallComboIsHet, bestCombo, marginalVars, outputs>>

\* ------------------------------------------------------------ search
\* What the combination search (banded or EM, including all homozygous combos)
\* can leave in genotypeCombos: the combos it accepted, then every
\* all-homozygous combo; equal assignments carry equal scores.
SearchResults(ploidies, alleles, maxFound, maxLogPost) ==
    UNION {
        LET all == found \o AllHomozygousAssignments(ploidies, alleles)
        IN  {[k \in 1..Len(all) |-> GenotypeCombo(all[k], score[all[k]])] :
                score \in [Range(all) -> 0..maxLogPost]} :
        found \in BoundedSeq(AllAssignments(ploidies, alleles), maxFound)}

\* the ploidies of the samples with data, in the order of sampleDataLikelihoods
DataPloidies == [k \in 1..Len(sampleDataLikelihoods) |-> site.ploidies[sampleDataLikelihoods[k][1].name]]

Search ==
    /\ pc = "search"
    /\ genotypeCombos' \in SearchResults(DataPloidies, site.genotypeAlleles, MaxFound, MaxLogPost)
    /\ pc' = "sort"
    /\ UNCHANGED <<parameters, twin, site, counters, skipped, likelihoodVars, sampleDataLikelihoods, posteriorNormalizer, pVar,
                   pHom, hasHetCombo, bestOverallComboIsHet, bestCombo, marginalVars, outputs>>

\* genotypeCombos.sort(gcrSorter); genotypeCombos.unique(); get posterior normalizer
SortCombos ==
    /\ pc = "sort"
    /\ genotypeCombos' = SortAndUnique(genotypeCombos)
    /\ posteriorNormalizer' = posteriorNormalizerOf(genotypeCombos')
    /\ pc' = "decision"
    /\ UNCHANGED <<parameters, twin, site, counters, skipped, likelihoodVars, sampleDataLikelihoods, pVar, pHom, hasHetCombo,
                   bestOverallComboIsHet, bestCombo, marginalVars, outputs>>

\* calculates pvar and gets the best het combo
SiteDecision ==
    /\ pc = "decision"
    /\ LET d == SiteDecisionOf(genotypeCombos)
       IN  /\ pVar' = d.pVar
           /\ pHom' = d.pHom
           /\ hasHetCombo' = d.hasHetCombo
           /\ bestOverallComboIsHet' = d.bestOverallComboIsHet
           /\ bestCombo' = d.bestCombo
    /\ pc' = "call"
    /\ UNCHANGED <<parameters, twin, site, counters, skipped, likelihoodVars, sampleDataLikelihoods, genotypeCombos,
                   posteriorNormalizer, marginalVars, outputs>>

\* if ((1 - pHom) >= parameters.PVL) {
CallVariant ==
    /\ pc = "call"
    /\ IsVariantCall(pHom, posteriorNormalizer, parameters.PVL)
    /\ pc' = IF parameters.calculateMarginals THEN "marginals" ELSE "emit"
    /\ UNCHANGED <<parameters, twin, site, counters, skipped, siteVars, marginalVars, outputs>>

\* the lines of the failed-site report: one per genotype allele that is not of
\* type ALLELE_REFERENCE (the genotype alleles are of type ALLELE_GENOTYPE)
FailedLines(s) ==
    [k \in 1..Len(s.genotypeAlleles) |->
        [currentSequenceName |-> s.currentSequenceName, position |-> s.currentPosition,
         allele |-> s.genotypeAlleles[k]]]

\* } else if (!parameters.failedFile.empty()) {
FailedSite ==
    /\ pc = "call"
    /\ ~IsVariantCall(pHom, posteriorNormalizer, parameters.PVL)
    /\ parameters.failedFile
    /\ failedFile' = failedFile \o FailedLines(site)
    /\ pc' = "loop"
    /\ FreshLocals
    /\ UNCHANGED <<parameters, twin, site, counters, skipped, out>>

\* neither branch: finished position
NoCall ==
    /\ pc = "call"
    /\ ~IsVariantCall(pHom, posteriorNormalizer, parameters.PVL)
    /\ ~parameters.failedFile
    /\ pc' = "loop"
    /\ FreshLocals
    /\ UNCHANGED <<parameters, twin, site, counters, skipped, outputs>>

\* ------------------------------------------------------------ marginal loop
\* the second-pass scores (pooled, hwe priors) of the site's assignments
SecondPassScores(ploidies, alleles) == [AllAssignments(ploidies, alleles) -> 0..MaxLocalLogPost]

\* orderedGenotypeCombo(genotypeCombos.front(), bestComboOrdered, ...)
MarginalStart ==
    /\ pc = "marginals"
    /\ bestComboOrdered' = orderedGenotypeCombo(genotypeCombos[1])
    /\ localPosterior' \in SecondPassScores(DataPloidies, site.genotypeAlleles)
    /\ iteration' = 0
    /\ pc' = "iterate"
    /\ UNCHANGED <<parameters, twin, site, counters, skipped, siteVars, lastSwapped,
                   bestGenotypeComboByMarginals, localExpansion, outputs>>

\* LoopSeed with the best combo on every pass
LoopSeed_EveryPass(iter, seed) == seed

\* (i == 0 ? bestComboOrdered : nullCombo): seed with the best combo on the first pass
LoopSeed(iter, seed) == IF iter = 0 THEN seed ELSE <<>>

\* the call allLocalGenotypeCombinations(localGenotypeCombos, comboKing, sampleDataLikelihoods, ...)
\* of pass i: what it is handed and the list it fills
LocalExpansion(i, comboKing, likelihoods, score) ==
    [i |-> i, comboKing |-> comboKing,
     samples |-> [s \in 1..Len(likelihoods) |-> likelihoods[s][1].name],
     localGenotypeCombos |-> allLocalGenotypeCombinations(comboKing, likelihoods, score)]

\* MarginalIteration with every pass seeded by bestComboOrdered
MarginalIteration_AlwaysSeeded ==
    /\ pc = "iterate"
    /\ LoopGuard(iteration, parameters.genotypingMaxIterations)
    /\ LET before == MarginalPassUnsorted(bestComboOrdered, sampleDataLikelihoods, localPosterior)
           after == sortSampleDataLikelihoodsByMarginals(before)
           swapped == SortSwapped(before, after)
       IN  /\ sampleDataLikelihoods' = after
           /\ lastSwapped' = swapped
           /\ localExpansion' = LocalExpansion(iteration, bestComboOrdered, sampleDataLikelihoods,
                                               localPosterior)
           /\ IF ~swapped
              THEN pc' = "converged" /\ iteration' = iteration
              ELSE pc' = "iterate" /\ iteration' = iteration + 1
    /\ UNCHANGED <<parameters, twin, site, counters, skipped, likelihoodVars, genotypeCombos,
                   posteriorNormalizer, pVar, pHom,
                   hasHetCombo, bestOverallComboIsHet, bestCombo, localPosterior, bestComboOrdered,
                   bestGenotypeComboByMarginals, outputs>>

\* one iteration of for (int i = 0; i < parameters.genotypingMaxIterations; ++i)
MarginalIteration ==
    /\ pc = "iterate"
    /\ LoopGuard(iteration, parameters.genotypingMaxIterations)
    /\ LET before == MarginalPassUnsorted(LoopSeed(iteration, bestComboOrdered), sampleDataLikelihoods,
                                          localPosterior)
           after == sortSampleDataLikelihoodsByMarginals(before)
           swapped == SortSwapped(before, after)
       IN  /\ sampleDataLikelihoods' = after
           /\ lastSwapped' = swapped
           /\ localExpansion' = LocalExpansion(iteration, LoopSeed(iteration, bestComboOrdered), sampleDataLikelihoods,
                                               localPosterior)
           /\ IF ~swapped
              THEN pc' = "converged" /\ iteration' = iteration
              ELSE pc' = "iterate" /\ iteration' = iteration + 1
    /\ UNCHANGED <<parameters, twin, site, counters, skipped, likelihoodVars, genotypeCombos,
                   posteriorNormalizer, pVar, pHom,
                   hasHetCombo, bestOverallComboIsHet, bestCombo, localPosterior, bestComboOrdered,
                   bestGenotypeComboByMarginals, outputs>>

\* the guard fails: the loop ends at the cap
MarginalLoopEnd ==
    /\ pc = "iterate"
    /\ ~LoopGuard(iteration, parameters.genotypingMaxIterations)
    /\ pc' = "exhausted"
    /\ UNCHANGED <<parameters, twin, site, counters, skipped, siteVars, marginalVars, outputs>>

\* generate the best marginal combo according to marginals, which we've sorted by
BestByMarginals ==
    /\ pc \in {"converged", "exhausted"}
    /\ bestGenotypeComboByMarginals' = dataLikelihoodMaxGenotypeCombo(sampleDataLikelihoods)
    /\ pc' = "emit"
    /\ UNCHANGED <<parameters, twin, site, counters, skipped, siteVars, localPosterior, bestComboOrdered,
                   iteration, lastSwapped, localExpansion, outputs>>

\* ------------------------------------------------------------ emission
Alternates == alternateAlleles(genotypeCombos[bestCombo].genotypes, site.currentReferenceBase)

\* the record vcf(...) writes for one alternate
VcfRecord(alt) ==
    [currentSequenceName |-> site.currentSequenceName, currentPosition |-> site.currentPosition,
     alt |-> alt,
     combo |-> IF parameters.calculateMarginals THEN bestGenotypeComboByMarginals
               ELSE genotypeCombos[bestCombo].genotypes]

\* reportAllAlternates: one record per alternate, in rank order
EmitAllAlternates ==
    /\ pc = "emit"
    /\ parameters.reportAllAlternates
    /\ out' = out \o [a \in 1..Len(Alternates) |-> VcfRecord(Alternates[a])]
    /\ pc' = "loop"
    /\ FreshLocals
    /\ UNCHANGED <<parameters, twin, site, counters, skipped, failedFile>>

\* EmitBestAlternate writing its record after one for the following position
EmitBestAlternate_AfterLaterPosition ==
    /\ pc = "emit"
    /\ ~parameters.reportAllAlternates
    /\ Alternates # <<>>
    /\ out' = out \o <<[VcfRecord(Alternates[1]) EXCEPT !.currentPosition = @ + 1],
                       VcfRecord(Alternates[1])>>
    /\ pc' = "loop"
    /\ FreshLocals
    /\ UNCHANGED <<parameters, twin, site, counters, skipped, failedFile>>

\* Allele& bestAlt = alternates.front().first; one record for it
EmitBestAlternate ==
    /\ pc = "emit"
    /\ ~parameters.reportAllAlternates
    /\ Alternates # <<>>
    /\ out' = Append(out, VcfRecord(Alternates[1]))
    /\ pc' = "loop"
    /\ FreshLocals
    /\ UNCHANGED <<parameters, twin, site, counters, skipped, failedFile>>

\* alternates.front() of an empty vector is undefined: the read faults, or it
\* yields an allele that is none of the combo's and a record is written for it
EmitFrontOfEmpty ==
    /\ pc = "emit"
    /\ ~parameters.reportAllAlternates
    /\ Alternates = <<>>
    /\ \/ pc' = "crashed" /\ out' = out /\ UNCHANGED <<siteVars, marginalVars>>
       \/ pc' = "loop" /\ out' = Append(out, VcfRecord("?")) /\ FreshLocals
    /\ UNCHANGED <<parameters, twin, site, counters, skipped, failedFile>>

Next ==
    \/ GetNextAlleles
    \/ EndOfInput
    \/ CheckReferenceBase
    \/ CheckInTarget
    \/ CheckCoverage
    \/ CheckAlternateObservations
    \/ CheckGenotypeAlleles
    \/ DataLikelihoods
    \/ Search
    \/ SortCombos
    \/ SiteDecision
    \/ CallVariant
    \/ FailedSite
    \/ NoCall
    \/ EmitAllAlternates
    \/ EmitBestAlternate
    \/ EmitFrontOfEmpty

Spec == Init /\ [][Next]_vars

\* ------------------------------------------------------------ one site
\* sites that pass every gate: reference A, one diploid or two haploid samples
ProcessedSitesOf(ploidyChoices) ==
    {s \in SitesAt([currentSequenceName |-> "chr1", currentPosition |-> 1], "A", ploidyChoices) :
        /\ s.inTarget
        /\ s.coverage = MaxCoverage
        /\ s.sufficientAlternateObservations
        /\ ~TooFewGenotypeAlleles(s.genotypeAlleles)}

ProcessedSites == ProcessedSitesOf({<<2>>, <<1, 1>>})

\* the kernel's results with every sample's first genotype the best
FirstBestProbs(s) ==
    [k \in 1..Len(s.ploidies) |->
        LET genotypes == allPossibleGenotypes(s.ploidies[k], s.genotypeAlleles)
        IN  [j \in 1..Len(genotypes) |-> <<genotypes[j], IF j = 1 THEN 0 ELSE 0 - 1>>]]

\* the state the likelihood phase leaves for the kernel's results probs
AfterLikelihoods(probs) ==
    LET phase == LikelihoodPhase(site, parameters, probs)
    IN  /\ results = phase.results
        /\ sampleDataLikelihoods = phase.sampleDataLikelihoods
        /\ variantSampleDataLikelihoods = phase.variantSampleDataLikelihoods
        /\ invariantSampleDataLikelihoods = phase.invariantSampleDataLikelihoods

\* a processed site after the search has filled genotypeCombos
InitSite ==
    /\ parameters \in {c \in Configurations :
            /\ ~c.calculateMarginals /\ c.genotypingMaxIterations = 0 /\ c.minCoverage = 0
            /\ DefaultPolicies(c)}
    /\ pc = "sort"
    /\ site \in ProcessedSites
    /\ total_sites = 1
    /\ processed_sites = 1
    /\ skipped = ""
    /\ AfterLikelihoods(FirstBestProbs(site))
    /\ genotypeCombos \in SearchResults(site.ploidies, site.genotypeAlleles, SiteMaxFound, SiteMaxLogPost)
    /\ posteriorNormalizer = 0
    /\ pVar = 0
    /\ pHom = 0
    /\ hasHetCombo = FALSE
    /\ bestOverallComboIsHet = FALSE
    /\ bestCombo = 0
    /\ localPosterior = <<>>
    /\ bestComboOrdered = <<>>
    /\ iteration = 0
    /\ lastSwapped = FALSE
    /\ bestGenotypeComboByMarginals = <<>>
    /\ localExpansion = NoExpansion
    /\ out = <<>>
    /\ failedFile = <<>>
    /\ twin = NoTwin

NextSite ==
    \/ SortCombos
    \/ SiteDecision
    \/ CallVariant
    \/ FailedSite
    \/ NoCall
    \/ EmitAllAlternates
    \/ EmitBestAlternate
    \/ EmitFrontOfEmpty

SpecSite == InitSite /\ [][NextSite]_vars

\* ------------------------------------------------------------ one site's marginals
\* two haploid samples, reference A and one alternate
MarginalSites ==
    {s \in ProcessedSites : s.ploidies = <<1, 1>> /\ Len(s.genotypeAlleles) = 2}

\* a called site with marginals to calculate, at the variant-call branch
InitMarginals ==
    /\ parameters \in {c \in Configurations :
            /\ c.calculateMarginals /\ c.PVL = 0 /\ ~c.failedFile /\ c.minCoverage = 0
            /\ ~c.excludePartiallyObservedGenotypes /\ ~c.excludeUnobservedGenotypes}
    /\ pc = "marginals"
    /\ site \in MarginalSites
    /\ total_sites = 1
    /\ processed_sites = 1
    /\ skipped = ""
    /\ \E probs \in SiteKernelResults(site, parameters) : AfterLikelihoods(probs)
    /\ \E found \in SearchResults(site.ploidies, site.genotypeAlleles, MaxFound, MaxLogPost) :
          /\ genotypeCombos = SortAndUnique(found)
          /\ posteriorNormalizer = posteriorNormalizerOf(genotypeCombos)
          /\ LET d == SiteDecisionOf(genotypeCombos)
             IN  /\ pVar = d.pVar
                 /\ pHom = d.pHom
                 /\ hasHetCombo = d.hasHetCombo
                 /\ bestOverallComboIsHet = d.bestOverallComboIsHet
                 /\ bestCombo = d.bestCombo
    /\ localPosterior = <<>>
    /\ bestComboOrdered = <<>>
    /\ iteration = 0
    /\ lastSwapped = FALSE
    /\ bestGenotypeComboByMarginals = <<>>
    /\ localExpansion = NoExpansion
    /\ out = <<>>
    /\ failedFile = <<>>
    /\ twin = NoTwin

NextMarginals ==
    \/ MarginalStart
    \/ MarginalIteration
    \/ MarginalLoopEnd
    \/ BestByMarginals
    \/ EmitAllAlternates
    \/ EmitBestAlternate
    \/ EmitFrontOfEmpty

SpecMarginals == InitMarginals /\ [][NextMarginals]_vars

\* ------------------------------------------------------------ two runs, two PVLs
\* The same input and configuration run twice, the second time (twin) under a
\* PVL that is not above the first's. Nothing before the test of line 447 reads
\* PVL, so the runs share the site's locals up to there; the twin has its
\* own output and its own fate at alternates.front().

\* what the twin can do with the site: if ((1 - pHom) >= parameters.PVL) { ... }
TwinOutcomes(t) ==
    LET done == [t EXCEPT !.sites = total_sites]
    IN  IF t.crashed \/ ~IsVariantCall(pHom, posteriorNormalizer, t.PVL) THEN {done}
        ELSE IF parameters.reportAllAlternates
        THEN {[done EXCEPT !.out = @ \o [a \in 1..Len(Alternates) |-> VcfRecord(Alternates[a])]]}
        ELSE IF Alternates # <<>>
        THEN {[done EXCEPT !.out = Append(@, VcfRecord(Alternates[1]))]}
        ELSE {[done EXCEPT !.crashed = TRUE], [done EXCEPT !.out = Append(@, VcfRecord("?"))]}

\* the twin's pass over lines 447-606 for the current site
TwinSite ==
    /\ pc = "call"
    /\ twin.sites < total_sites
    /\ twin' \in TwinOutcomes(twin)
    /\ UNCHANGED <<parameters, pc, site, counters, skipped, siteVars, marginalVars, outputs>>

\* the first run's test of line 447, once the twin has had the site
CallVariantAfterTwin == twin.sites = total_sites /\ CallVariant

NoCallAfterTwin == twin.sites = total_sites /\ NoCall

InitPVL ==
    /\ parameters \in {c \in Configurations :
            /\ ~c.calculateMarginals /\ c.genotypingMaxIterations = 0
            /\ ~c.failedFile /\ c.minCoverage = 0
            /\ DefaultPolicies(c)}
    /\ pc = "loop"
    /\ StartState
    /\ twin \in {[NoTwin EXCEPT !.PVL = q] : q \in 0..parameters.PVL}

NextPVL ==
    \/ GetNextAlleles
    \/ EndOfInput
    \/ CheckReferenceBase
    \/ CheckInTarget
    \/ CheckCoverage
    \/ CheckAlternateObservations
    \/ CheckGenotypeAlleles
    \/ DataLikelihoods
    \/ Search
    \/ SortCombos
    \/ SiteDecision
    \/ TwinSite
    \/ CallVariantAfterTwin
    \/ NoCallAfterTwin
    \/ EmitAllAlternates
    \/ EmitBestAlternate
    \/ EmitFrontOfEmpty

SpecPVL == InitPVL /\ [][NextPVL]_vars

\* ------------------------------------------------------------ one site's likelihood phase
\* processed sites (one diploid sample, or a haploid and a diploid one) whose
\* samples have observations for some of the genotype alleles
LikelihoodSites ==
    UNION {{[s EXCEPT !.observed = o] : o \in [1..Len(s.ploidies) -> SUBSET Range(s.genotypeAlleles)]} :
            s \in ProcessedSitesOf({<<2>>, <<1, 2>>})}

\* a processed site at the likelihood phase, under any filter policy and threshold
InitLikelihoods ==
    /\ parameters \in {c \in Configurations :
            /\ ~c.calculateMarginals /\ c.genotypingMaxIterations = 0 /\ c.minCoverage = 0
            /\ c.PVL = 0 /\ ~c.failedFile /\ ~c.reportAllAlternates}
    /\ pc = "likelihoods"
    /\ site \in LikelihoodSites
    /\ total_sites = 1
    /\ processed_sites = 1
    /\ skipped = ""
    /\ results = <<>>
    /\ sampleDataLikelihoods = <<>>
    /\ variantSampleDataLikelihoods = <<>>
    /\ invariantSampleDataLikelihoods = <<>>
    /\ genotypeCombos = <<>>
    /\ posteriorNormalizer = 0
    /\ pVar = 0
    /\ pHom = 0
    /\ hasHetCombo = FALSE
    /\ bestOverallComboIsHet = FALSE
    /\ bestCombo = 0
    /\ localPosterior = <<>>
    /\ bestComboOrdered = <<>>
    /\ iteration = 0
    /\ lastSwapped = FALSE
    /\ bestGenotypeComboByMarginals = <<>>
    /\ localExpansion = NoExpansion
    /\ out = <<>>
    /\ failedFile = <<>>
    /\ twin = NoTwin

NextLikelihoods == DataLikelihoods

SpecLikelihoods == InitLikelihoods /\ [][NextLikelihoods]_vars

\* ================================================================ claims
GatePcs == {"referenceBase", "inTarget", "coverage", "alternateObservations", "genotypeAlleles"}

InferencePcs ==
    {"likelihoods", "search", "sort", "decision", "call", "marginals", "iterate", "converged",
     "exhausted", "emit"}

\* the five gates of the claim
AllGatesPass(s) ==
    /\ s.currentReferenceBase \in {"A", "C", "G", "T"}
    /\ s.inTarget
    /\ s.coverage # 0 /\ s.coverage >= parameters.minCoverage
    /\ s.sufficientAlternateObservations
    /\ Len(s.genotypeAlleles) >= 2

\* the first gate, in the claim's order, that the site fails
FirstFailingGate(s) ==
    IF s.currentReferenceBase \notin {"A", "C", "G", "T"} THEN "referenceBase"
    ELSE IF ~s.inTarget THEN "inTarget"
    ELSE IF s.coverage = 0 \/ s.coverage < parameters.minCoverage THEN "coverage"
    ELSE IF ~s.sufficientAlternateObservations THEN "alternateObservations"
    ELSE IF Len(s.genotypeAlleles) < 2 THEN "genotypeAlleles"
    ELSE "none"

GateAfter(gate) ==
    CASE gate = "referenceBase" -> "inTarget"
      [] gate = "inTarget" -> "coverage"
      [] gate = "coverage" -> "alternateObservations"
      [] gate = "alternateObservations" -> "genotypeAlleles"
      [] OTHER -> "likelihoods"

\* C1: a site is counted as processed and enters inference only if all five
\* gates pass; the gates are checked in the order reference base, target,
\* coverage, alternate observations, genotype alleles; a site failing a gate is
\* skipped at its first failing gate, writes no variant record and no
\* failed-site line, and the driver returns to the top of the loop.
C1_GatesGuardInference ==
    [][/\ processed_sites' # processed_sites =>
            AllGatesPass(site) /\ processed_sites' = processed_sites + 1 /\ pc' = "likelihoods"
       /\ pc' \in InferencePcs => AllGatesPass(site')
       /\ pc \in GatePcs /\ ~AllGatesPass(site) =>
            /\ out' = out /\ failedFile' = failedFile /\ processed_sites' = processed_sites
            /\ IF pc = FirstFailingGate(site)
               THEN pc' = "loop" /\ skipped' = pc
               ELSE pc' = GateAfter(pc) /\ skipped' = ""
       /\ pc \in GatePcs /\ AllGatesPass(site) => pc' = GateAfter(pc)
       /\ out' # out \/ failedFile' # failedFile => AllGatesPass(site) /\ pc \in InferencePcs
      ]_vars

\* a processed site wrote a record, and the next site was skipped for its
\* coverage being below minCoverage
C1_Witness ==
    /\ pc = "loop"
    /\ total_sites = 2
    /\ processed_sites = 1
    /\ out # <<>>
    /\ skipped = "coverage"
    /\ site.coverage # 0

\* sums over the combo list, in units of 2^posteriorProb
HomWeight(combos) ==
    SumSeq([k \in 1..Len(combos) |-> IF isHomozygous(combos[k]) THEN Pow2(combos[k].posteriorProb) ELSE 0])

TotalWeight(combos) == SumSeq([k \in 1..Len(combos) |-> Pow2(combos[k].posteriorProb)])

\* (1 - pHom) >= PVL on the sorted, deduplicated list
ThresholdMet ==
    (TotalWeight(genotypeCombos) - HomWeight(genotypeCombos)) * PVLDen
        >= parameters.PVL * TotalWeight(genotypeCombos)

\* C2: at the call decision the emission branch is entered exactly when
\* (1 - pHom) >= PVL, with pHom from the sorted, deduplicated list; nothing is
\* written to the output when (1 - pHom) < PVL.
C2_CallIffThreshold ==
    [][/\ pc = "call" => ((pc' \in {"emit", "marginals"}) <=> ThresholdMet)
       /\ pc = "call" /\ ~ThresholdMet => out' = out
       /\ out' # out => ThresholdMet
      ]_vars

\* a call under a positive threshold with homozygous mass in the list
C2_Witness == pc = "emit" /\ parameters.PVL > 0 /\ pHom > 0

\* C3: after the site-decision loop pHom + pVar = 1 (both over the normalizer
\* of the deduplicated list), pHom is the homozygous combos' share, pVar one
\* minus it, and both lie in [0, 1].
C3_pHomPlusPVarIsOne ==
    pc \in {"call", "emit"} =>
        /\ posteriorNormalizer = TotalWeight(genotypeCombos)
        /\ pHom = HomWeight(genotypeCombos)
        /\ pVar = posteriorNormalizer - pHom
        /\ pHom + pVar = posteriorNormalizer
        /\ 0 <= pHom /\ pHom <= posteriorNormalizer
        /\ 0 <= pVar /\ pVar <= posteriorNormalizer

\* a list with both homozygous and heterozygous mass
C3_Witness == pc = "call" /\ 0 < pHom /\ 0 < pVar

HetIndexes(combos) == {k \in 1..Len(combos) : ~isHomozygous(combos[k])}

Least(S) == CHOOSE k \in S : \A j \in S : k <= j

\* C4: bestCombo is the first heterozygous combo of the sorted list, or the
\* first combo when the list holds no heterozygous one.
C4_BestComboIsFirstHet ==
    pc \in {"call", "emit"} /\ genotypeCombos # <<>> =>
        bestCombo = IF HetIndexes(genotypeCombos) = {} THEN 1 ELSE Least(HetIndexes(genotypeCombos))

\* two heterozygous combos, the first of them after a homozygous one
C4_Witness ==
    pc = "call" /\ bestCombo > 1 /\ Cardinality(HetIndexes(genotypeCombos)) >= 2

\* C5: bestOverallComboIsHet is true iff the first combo of the list is
\* heterozygous.
C5_BestOverallIsHetIffFirstHet ==
    pc \in {"call", "emit"} /\ genotypeCombos # <<>> =>
        (bestOverallComboIsHet <=> ~isHomozygous(genotypeCombos[1]))

\* a homozygous combo precedes the first heterozygous one
C5_Witness == pc = "call" /\ hasHetCombo /\ bestCombo > 1 /\ ~bestOverallComboIsHet

NoDuplicateAssignments(combos) ==
    \A i, j \in 1..Len(combos) : combos[i].genotypes = combos[j].genotypes => i = j

\* C6: after the sort by posteriorProb and the removal of adjacent equal
\* combos, no two combos of the site's list have the same (sample, genotype)
\* assignments, whatever list the search produced.
C6_NoDuplicatesAfterDedup ==
    pc \in {"decision", "call", "emit"} => NoDuplicateAssignments(genotypeCombos)

\* C7: the convergence loop runs at most genotypingMaxIterations passes; it
\* leaves early exactly at the first pass whose re-sort by marginals reports no
\* swap, and otherwise goes on to the next pass until the iteration count
\* reaches genotypingMaxIterations.
C7_LoopTerminatesWithinCap ==
    [][pc = "iterate" =>
        /\ iteration <= parameters.genotypingMaxIterations
        /\ (pc' = "exhausted") <=> (iteration >= parameters.genotypingMaxIterations)
        /\ pc' = "exhausted" => sampleDataLikelihoods' = sampleDataLikelihoods
        /\ (pc' = "converged") <=>
              (iteration < parameters.genotypingMaxIterations /\ ~lastSwapped')
        /\ pc' = "converged" => iteration' = iteration
        /\ pc' = "iterate" =>
              /\ lastSwapped'
              /\ iteration' = iteration + 1
              /\ iteration' <= parameters.genotypingMaxIterations
        /\ pc' \in {"iterate", "converged", "exhausted"}
      ]_vars

\* the loop left by a swap-free re-sort in its second pass, the first having swapped
C7_Witness ==
    pc = "converged" /\ iteration = 1 /\ parameters.genotypingMaxIterations = 2

\* the pass the loop would run next, on the lists as the loop left them
FurtherPass ==
    MarginalPass(LoopSeed(IF pc = "converged" THEN iteration + 1 ELSE iteration, bestComboOrdered),
                 sampleDataLikelihoods, localPosterior)

\* the pass that ended the loop was seeded as a further pass would be: from
\* the best genotype of every sample
SeededFromBestGenotypes ==
    iteration >= 1 \/ bestComboOrdered = dataLikelihoodMaxGenotypeCombo(sampleDataLikelihoods)

\* C8: when the loop has ended by a swap-free re-sort in a pass seeded from the
\* samples' current best genotypes, one further pass leaves every sample's
\* genotype order as it was at termination; nothing of the kind holds when
\* the loop ended by reaching genotypingMaxIterations, or in a first pass
\* whose seed, the first-pass best combo, is not the samples' best genotypes.
C8_FurtherPassAfterConvergence ==
    pc = "converged" /\ SeededFromBestGenotypes =>
        GenotypeOrder(FurtherPass) = GenotypeOrder(sampleDataLikelihoods)

\* the loop converged in its second pass, after a first pass that swapped
C8_Witness == pc = "converged" /\ iteration >= 1 /\ ~lastSwapped

\* C8 as stated: after termination by a swap-free re-sort or by the cap, a
\* further pass leaves every sample's genotype order unchanged.
C8_FurtherPassAfterAnyTermination ==
    pc \in {"converged", "exhausted"} =>
        GenotypeOrder(FurtherPass) = GenotypeOrder(sampleDataLikelihoods)

\* C9: on each sequence the records' positions never decrease; two records
\* share a position only if they are records of one site written in
\* reportAllAlternates mode for different alternates; in best-alternate-only
\* mode the positions strictly increase.
C9_RecordsInPositionOrder ==
    \A i, j \in 1..Len(out) :
        i < j /\ out[i].currentSequenceName = out[j].currentSequenceName =>
            /\ out[i].currentPosition <= out[j].currentPosition
            /\ out[i].currentPosition = out[j].currentPosition =>
                  parameters.reportAllAlternates /\ out[i].alt # out[j].alt

\* records of two sites of one sequence, in best-alternate-only mode
C9_Witness ==
    /\ ~parameters.reportAllAlternates
    /\ Len(out) = 2
    /\ out[1].currentSequenceName = out[2].currentSequenceName
    /\ out[1].currentPosition < out[2].currentPosition

\* C9 as stated: every record's position is strictly greater than that of the
\* record written before it on the same sequence, in both modes.
C9_RecordsInStrictPositionOrder ==
    \A i \in 1..(Len(out) - 1) :
        out[i].currentSequenceName = out[i + 1].currentSequenceName =>
            out[i].currentPosition < out[i + 1].currentPosition

\* the ranked non-reference alleles of bestCombo
RankedAlternates ==
    alternateAlleles(genotypeCombos[bestCombo].genotypes, site.currentReferenceBase)

\* C10: at a variant call, reportAllAlternates mode writes exactly one record
\* per alternate in rank order; otherwise the alternates list is non-empty and
\* exactly one record is written, for the top-ranked alternate.
C10_RecordsPerAlternate ==
    [][pc = "emit" =>
        IF parameters.reportAllAlternates
        THEN /\ Len(out') = Len(out) + Len(RankedAlternates)
             /\ \A a \in 1..Len(RankedAlternates) :
                    /\ out'[Len(out) + a].alt = RankedAlternates[a]
                    /\ out'[Len(out) + a].currentPosition = site.currentPosition
        ELSE /\ RankedAlternates # <<>>
             /\ Len(out') = Len(out) + 1
             /\ out'[Len(out')].alt = RankedAlternates[1]
      ]_vars

\* the sites (sequence and position) that have a record in a run's output
SitesWithRecord(records) ==
    {<<records[k].currentSequenceName, records[k].currentPosition>> : k \in 1..Len(records)}

\* C11: with the same input and configuration but PVL1 < PVL2 (the twin runs
\* under PVL1), the sites with a variant record under PVL2 are among the sites
\* with one under PVL1, and pHom, bestCombo and bestOverallComboIsHet of a site
\* do not depend on PVL.
C11_CalledSitesShrinkWithPVL ==
    /\ twin.PVL < parameters.PVL => SitesWithRecord(out) \subseteq SitesWithRecord(twin.out)
    /\ pc \in {"call", "emit"} =>
          LET d == SiteDecisionOf(genotypeCombos)
          IN  pHom = d.pHom /\ bestCombo = d.bestCombo /\ bestOverallComboIsHet = d.bestOverallComboIsHet

\* the samples (by name) of a list of sample likelihood lists, in order
SampleNames(lists) == [k \in 1..Len(lists) |-> lists[k][1].name]

NoRepeats(seq) == \A i, j \in 1..Len(seq) : seq[i] = seq[j] => i = j

\* the genotypes the configured policy keeps for sample s
PolicyGenotypes(s) ==
    {g \in Range(allPossibleGenotypes(site.ploidies[s], site.genotypeAlleles)) :
        IF parameters.excludePartiallyObservedGenotypes THEN Range(g) \subseteq site.observed[s]
        ELSE IF parameters.excludeUnobservedGenotypes THEN Range(g) \cap site.observed[s] # {}
        ELSE TRUE}

\* C12: after the likelihood phase every sample's result holds a likelihood for
\* exactly the genotypes of its ploidy kept by the policy (all; those with all
\* alleles supported when excludePartiallyObservedGenotypes is set, which wins;
\* those with some allele supported when only excludeUnobservedGenotypes is
\* set); a sample with no genotype kept has no result and is in no list.
C12_KernelGetsPolicyGenotypes ==
    pc = "search" =>
        \A s \in 1..Len(site.ploidies) :
            IF PolicyGenotypes(s) = {}
            THEN /\ s \notin DOMAIN results
                 /\ s \notin Range(SampleNames(sampleDataLikelihoods))
                 /\ s \notin Range(SampleNames(variantSampleDataLikelihoods))
                 /\ s \notin Range(SampleNames(invariantSampleDataLikelihoods))
            ELSE /\ s \in DOMAIN results
                 /\ {results[s][k].genotype : k \in 1..Len(results[s])} = PolicyGenotypes(s)
                 /\ Len(results[s]) = Cardinality(PolicyGenotypes(s))
                 /\ s \in Range(SampleNames(sampleDataLikelihoods))

\* both flags set: one sample is skipped, the other keeps only part of its genotypes
C12_Witness ==
    /\ pc = "search"
    /\ parameters.excludePartiallyObservedGenotypes /\ parameters.excludeUnobservedGenotypes
    /\ Len(site.ploidies) = 2
    /\ DOMAIN results = {2}
    /\ Len(results[2]) < Len(allPossibleGenotypes(site.ploidies[2], site.genotypeAlleles))
    /\ \E g \in Range(allPossibleGenotypes(site.ploidies[2], site.genotypeAlleles)) :
          g \notin PolicyGenotypes(2) /\ Range(g) \cap site.observed[2] # {}

\* the expansion of the last pass was handed every sample with data and its
\* list holds, for every such sample, a combo with each genotype of the sample
ExpandsAllSamplesWithData ==
    /\ Range(localExpansion.samples) = DOMAIN results
    /\ NoRepeats(localExpansion.samples)
    /\ \A s \in 1..Len(sampleDataLikelihoods) : \A k \in 1..Len(sampleDataLikelihoods[s]) :
          \E c \in 1..Len(localExpansion.localGenotypeCombos) :
              localExpansion.localGenotypeCombos[c].genotypes[s] = sampleDataLikelihoods[s][k].genotype

\* C13: the first pass of the convergence loop hands bestComboOrdered to the
\* local expansion as its seed, every later pass hands it the empty nullCombo,
\* for which the expansion starts from every sample's current best genotype;
\* every pass expands over all samples with data, whether or not they are in
\* the variant-candidate partition.
C13_SeedOfEachPass ==
    [][pc = "iterate" /\ pc' # "exhausted" =>
        /\ localExpansion'.i = iteration
        /\ localExpansion'.comboKing = (IF iteration = 0 THEN bestComboOrdered ELSE <<>>)
        /\ localExpansion'.localGenotypeCombos[1].genotypes =
              (IF iteration = 0 THEN bestComboOrdered
               ELSE dataLikelihoodMaxGenotypeCombo(sampleDataLikelihoods))
        /\ ExpandsAllSamplesWithData'
      ]_vars

\* a second pass has run at a site none of whose samples is a variant candidate
C13_Witness ==
    /\ localExpansion.i = 1
    /\ Len(sampleDataLikelihoods) = 2
    /\ variantSampleDataLikelihoods = <<>>
    /\ Len(invariantSampleDataLikelihoods) = 2

\* C13 as stated: every pass of the convergence loop, not only the first, is
\* seeded with bestComboOrdered and expands over all samples with data.
C13_EveryPassSeededWithBestCombo ==
    [][pc = "iterate" /\ pc' # "exhausted" =>
        /\ localExpansion'.comboKing = bestComboOrdered
        /\ ExpandsAllSamplesWithData'
      ]_vars

\* the Phred value of 1 - (2^top - 2^second) is below t units of 10*log10(2):
\* 2^t * (1 - 2^top + 2^second) > 1, scaled by 2^(-second)
TopTwoWithinThreshold(list, t) ==
    LET scale == Pow2(0 - list[2].prob)
        topScaled == Pow2(list[1].prob - list[2].prob)
    IN  Pow2(t) * (scale - topScaled + 1) > scale

\* C14: after the likelihood phase every sample with a result is in
\* sampleDataLikelihoods exactly once and in exactly one of the variant and
\* invariant lists; with genotypeVariantThreshold 0 every such sample is
\* variant; otherwise a sample is variant only if it has at least two genotypes
\* and the Phred value of the gap of its top two likelihoods is below the
\* threshold, and every other sample is invariant.
C14_VariantInvariantPartition ==
    pc = "search" =>
        LET all == SampleNames(sampleDataLikelihoods)
            variant == SampleNames(variantSampleDataLikelihoods)
            invariant == SampleNames(invariantSampleDataLikelihoods)
        IN  /\ NoRepeats(all) /\ Range(all) = DOMAIN results
            /\ \A k \in 1..Len(all) : sampleDataLikelihoods[k] = results[all[k]]
            /\ NoRepeats(variant \o invariant)
            /\ Range(variant) \cup Range(invariant) = DOMAIN results
            /\ \A k \in 1..Len(variant) : variantSampleDataLikelihoods[k] = results[variant[k]]
            /\ \A k \in 1..Len(invariant) : invariantSampleDataLikelihoods[k] = results[invariant[k]]
            /\ \A s \in DOMAIN results :
                  s \in Range(variant) <=>
                      \/ parameters.genotypeVariantThreshold = 0
                      \/ /\ Len(results[s]) >= 2
                         /\ TopTwoWithinThreshold(results[s], parameters.genotypeVariantThreshold)

\* under one threshold: a variant sample, and an invariant one with a single genotype
C14_Witness ==
    /\ pc = "search"
    /\ parameters.genotypeVariantThreshold # 0
    /\ Len(variantSampleDataLikelihoods) = 1
    /\ Len(invariantSampleDataLikelihoods) = 1
    /\ Len(invariantSampleDataLikelihoods[1]) = 1

\* C15: the alternate allele of every record written occurs in the genotype
\* combo handed to the formatter with that record, also when calculateMarginals
\* is on (the alternates ranked from bestCombo, the combo handed over the best
\* by marginals).
C15_AlternateOccursInCombo ==
    \A k \in 1..Len(out) : out[k].alt \in ComboAlleles(out[k].combo)

====
